---- MODULE Spec2Model ----
(***************************************************************************)
(* A model of the Mach transport of ipc-channel                            *)
(* (src/platform/macos/mod.rs): the endpoint values MachSender,            *)
(* MachReceiver, MachChannel, OpaqueMachChannel and MachOneShotServer, the *)
(* wire layout of one message, and the part of the Mach kernel and of the  *)
(* bootstrap registry that the code calls.                                 *)
(*                                                                         *)
(* One task is modelled.  A port name of the task is identified with the   *)
(* port it names, so a right that travels through a message comes back     *)
(* under the same name.  A panic ends the process: no operation is enabled *)
(* once panicked is TRUE.                                                  *)
(***************************************************************************)
EXTENDS Integers, Sequences, FiniteSets, TLC

\* ---------------------------------------------------------------- bounds

\* Port names the kernel can hand out: 1..MaxPorts.
MaxPorts == 2
\* Live MachSender values per port (guards clone/sender/connect).
MaxSenders == 2
\* Messages queued in the kernel at once; a send blocks at the limit.
MaxQueue == 2
\* Calls of send the program makes in one run.
MaxSends == 2
\* Longest payload sent: payloads are <<1>>, <<1,2>>, ... up to this length.
MaxLen == 5
\* Longest endpoint list passed to send.
MaxEndpoints == 2
\* OpaqueMachChannel values alive at once.
MaxOpaque == 2
\* Nulled (consumed) MachReceiver values alive at once.
MaxNull == 1
\* Bootstrap names the random generator can produce: 1..MaxNames.
MaxNames == 2
\* Send-right user references the task holds on one name.
MaxRefs == 3
\* Longest payload sent to overflow the small receive buffer.
MaxLargeLen == 4100

\* ------------------------------------------------------- program constants

SMALL_MESSAGE_SIZE == 4096
BOOTSTRAP_SUCCESS == 0
BOOTSTRAP_NAME_IN_USE == 1101
KERN_SUCCESS == 0
KERN_INVALID_RIGHT == 17
MACH_MSG_PORT_DESCRIPTOR == 0
MACH_MSG_SUCCESS == 0
MACH_MSG_TYPE_MOVE_RECEIVE == 16
MACH_MSG_TYPE_MOVE_SEND == 17
MACH_MSG_TYPE_COPY_SEND == 19
MACH_MSG_TYPE_MAKE_SEND == 20
MACH_PORT_NULL == 0
MACH_RCV_TOO_LARGE == 268451844

\* mem::size_of::<Message>(): mach_msg_header_t (six 32-bit fields) followed
\* by mach_msg_body_t (one 32-bit descriptor count).
SizeOfMessage == 28
\* mem::size_of::<mach_msg_port_descriptor_t>(): name (4), pad1 (4), then one
\* word holding pad2 (16 bits), disposition (8 bits) and type (8 bits).
SizeOfPortDescriptor == 12
\* The correction recv adds to the size the kernel reports with TOO_LARGE.
SizeCorrection == 8

\* Statuses of the kernel and of the registry that the code only passes on.
KERN_INVALID_NAME == 15
KERN_NO_SPACE == 3
MACH_SEND_INVALID_DEST == 268435459
MACH_SEND_INVALID_RIGHT == 268435463
MACH_RCV_INTERRUPTED == 268451845
BOOTSTRAP_NOT_PRIVILEGED == 1100

\* The receive trailer the kernel appends: the buffer must hold it too.
TrailerSize == 8

Ports == 1..MaxPorts
Names == 0..MaxPorts
BootstrapNames == 1..MaxNames

\* A byte a malloc'ed buffer holds before the program writes it.
Uninit == -1

\* The payloads the program sends: <<>>, <<1>>, <<1,2>>, ..., bytes mod 256.
Payload(n) == [i \in 1..n |-> i % 256]
Payloads == {Payload(n) : n \in 0..MaxLen}

\* ------------------------------------------------------------ wire layout

\* Message::size_of
Message_size_of(data_length, port_length) ==
    LET size == SizeOfMessage + SizeOfPortDescriptor * port_length + data_length
    IN IF (size % 4) # 0 THEN (size - (size % 4)) + 4 ELSE size

\* MachChannel::port
MachChannel_port(channel) == channel.port

\* A descriptor loop that hands every endpoint over as a copied send right.
DispositionCopySend(channel) == MACH_MSG_TYPE_COPY_SEND

\* The disposition send writes for one outgoing endpoint.
Disposition(channel) ==
    IF channel.kind = "Sender" THEN MACH_MSG_TYPE_COPY_SEND
                               ELSE MACH_MSG_TYPE_MOVE_RECEIVE

\* The descriptor loop of send: one descriptor per endpoint, in input order.
\* pad2 is never written by the loop.
FillDescriptors(ports) ==
    [i \in 1..Len(ports) |->
        [name |-> MachChannel_port(ports[i]), pad1 |-> 0, pad2 |-> Uninit,
         disposition |-> Disposition(ports[i]),
         type_ |-> MACH_MSG_PORT_DESCRIPTOR]]

\* "Zero out the last word": the 32-bit word at byte offset size - 4 of the
\* buffer is set to 0.  The buffer is the 28-byte Message, the descriptors of
\* 12 bytes each, then the data region; the word is the last word of the data
\* region when that region is not empty, else the last word of the last
\* descriptor (pad2, disposition, type), else the descriptor count.
ZeroLastWord(m) ==
    LET n == Len(m.descriptors)
        d == Len(m.data)
    IN IF d >= 4
       THEN [m EXCEPT !.data = SubSeq(@, 1, d - 4) \o <<0, 0, 0, 0>>]
       ELSE IF n > 0
       THEN [m EXCEPT !.descriptors[n].pad2 = 0,
                      !.descriptors[n].disposition = 0,
                      !.descriptors[n].type_ = 0]
       ELSE [m EXCEPT !.body.msgh_descriptor_count = 0]

\* ptr::copy_nonoverlapping(data, data_dest, data.len())
CopyData(m, data) ==
    [m EXCEPT !.data = data \o SubSeq(@, Len(data) + 1, Len(@))]

\* The buffer send hands to mach_msg.
BuildMessage(port, data, ports) ==
    LET size == Message_size_of(Len(data), Len(ports))
        region == size - SizeOfMessage - SizeOfPortDescriptor * Len(ports)
        m0 == [header |-> [msgh_bits |-> [remote |-> MACH_MSG_TYPE_COPY_SEND,
                                          complex |-> TRUE],
                           msgh_size |-> size,
                           msgh_local_port |-> MACH_PORT_NULL,
                           msgh_remote_port |-> port,
                           msgh_id |-> 0],
               body |-> [msgh_descriptor_count |-> Len(ports)],
               descriptors |-> FillDescriptors(ports),
               data |-> [i \in 1..region |-> Uninit]]
    IN CopyData(ZeroLastWord(m0), data)

\* A recv that reports the other port field of the header.
ReceivedPortRemote(header) == header.msgh_remote_port

\* The port recv reports the message as received on.
ReceivedPort(header) == header.msgh_local_port

\* The tail of recv: one OpaqueMachChannel per descriptor, in order, then
\* every byte from the end of the descriptors to msgh_size as the payload.
ParseMessage(message) ==
    LET count == message.body.msgh_descriptor_count
        payload_size == message.header.msgh_size - SizeOfMessage
                            - SizeOfPortDescriptor * count
    IN [port |-> ReceivedPort(message.header),
        payload |-> SubSeq(message.data, 1, payload_size),
        ports |-> [i \in 1..count |-> message.descriptors[i].name]]

\* ------------------------------------------------------------------ state

VARIABLES
    debug_assertions,  \* the build: whether debug_assert! is compiled in
    receive_right,     \* kernel: where each port's receive right is
    send_refs,         \* kernel: the task's send-right user references per name
    queue,             \* kernel: the messages queued on each port
    registry,          \* bootstrap registry: what each name resolves to
    receivers,         \* live MachReceiver values, counted by their port field
    senders,           \* live MachSender values, counted by their port field
    opaques,           \* live OpaqueMachChannel values, in order of receipt
    server,            \* the MachOneShotServer value and its construction
    port_set,          \* the MachReceiverSet value and the kernel's port set
    members,           \* kernel: the ports that are members of the port set
    released,          \* history: receive-right releases MachReceiver::drop issued
    sends,             \* history: calls of send made so far
    panicked,          \* the process died of a panic or failed assertion
    last_call          \* the operation last run: arguments, kernel calls, result

vars == <<debug_assertions, receive_right, send_refs, queue, registry, receivers,
          senders, opaques, server, port_set, members, released, sends, panicked,
          last_call>>

\* A registry entry that is free, and one held by an unrelated process.
Free == 0
Foreign == -1

NoServer == [state |-> "none", receiver |-> MACH_PORT_NULL, name |-> 0]

\* One kernel, registry or allocator call as recorded in last_call.calls.
KCall(fn, name, arg) == [fn |-> fn, name |-> name, arg |-> arg]

Returned(op, args, calls, os_result, value) ==
    [op |-> op, args |-> args, calls |-> calls, os_result |-> os_result,
     value |-> value]

Init ==
    /\ debug_assertions \in BOOLEAN
    /\ receive_right = [p \in Ports |-> "unallocated"]
    /\ send_refs = [p \in Ports |-> 0]
    /\ queue = [p \in Ports |-> <<>>]
    /\ registry \in [BootstrapNames -> {Free, Foreign}]
    /\ receivers = [p \in Names |-> 0]
    /\ senders = [p \in Names |-> 0]
    /\ opaques = <<>>
    /\ server = NoServer
    /\ port_set = "none"
    /\ members = {}
    /\ released = [p \in Ports |-> 0]
    /\ sends = 0
    /\ panicked = FALSE
    /\ last_call = Returned("none", <<>>, <<>>, KERN_SUCCESS, <<>>)

\* ----------------------------------------------------------------- kernel

\* The task knows the name: it holds the receive right or send references.
NameKnown(p) == p \in Ports /\ (receive_right[p] = "task" \/ send_refs[p] > 0)

PortAlive(p) == p \in Ports /\ receive_right[p] \in {"task", "message"}

RECURSIVE Sum(_, _)
Sum(f, S) == IF S = {} THEN 0
             ELSE LET x == CHOOSE y \in S : TRUE IN f[x] + Sum(f, S \ {x})

\* The messages queued in the kernel.
Queued == Sum([p \in Ports |-> Len(queue[p])], Ports)

\* The receive rights the messages queued on the ports of S carry.
CarriedBy(S) ==
    {q \in Ports : \E d \in S : \E i \in 1..Len(queue[d]) :
        \E j \in 1..Len(queue[d][i].message.descriptors) :
            /\ queue[d][i].message.descriptors[j].disposition = MACH_MSG_TYPE_MOVE_RECEIVE
            /\ queue[d][i].message.descriptors[j].name = q}

\* The ports that die with the ports of S: a dying port's queued messages are
\* destroyed, and with them the receive rights they carry.
RECURSIVE Doomed(_)
Doomed(S) == IF CarriedBy(S) \subseteq S THEN S ELSE Doomed(S \cup CarriedBy(S))

\* mach_port_allocate(MACH_PORT_RIGHT_RECEIVE): the lowest unused name, or 0
\* when the name space is exhausted.
FreshPort ==
    IF \E p \in Ports : receive_right[p] = "unallocated"
    THEN CHOOSE p \in Ports : /\ receive_right[p] = "unallocated"
                              /\ \A q \in Ports : receive_right[q] = "unallocated" => p <= q
    ELSE MACH_PORT_NULL

\* Status of mach_port_mod_refs(name, MACH_PORT_RIGHT_RECEIVE, -1).
ModRefsReceiveStatus(p) ==
    IF ~NameKnown(p) THEN KERN_INVALID_NAME
    ELSE IF receive_right[p] = "task" THEN KERN_SUCCESS
    ELSE KERN_INVALID_RIGHT

\* Status of mach_port_mod_refs(name, MACH_PORT_RIGHT_SEND, delta): a name whose
\* port died is a dead name and no longer denotes a send right.
ModRefsSendStatus(p) ==
    IF ~NameKnown(p) THEN KERN_INVALID_NAME
    ELSE IF send_refs[p] > 0 /\ PortAlive(p) THEN KERN_SUCCESS
    ELSE KERN_INVALID_RIGHT

\* Status of mach_port_extract_right(name, MACH_MSG_TYPE_MAKE_SEND).
ExtractRightStatus(p) ==
    IF ~NameKnown(p) THEN KERN_INVALID_NAME
    ELSE IF receive_right[p] = "task" THEN KERN_SUCCESS
    ELSE KERN_INVALID_RIGHT

\* ------------------------------------------------- MachReceiver, MachSender

Inc(bag, k) == [bag EXCEPT ![k] = @ + 1]
Dec(bag, k) == [bag EXCEPT ![k] = @ - 1]

\* The effect on the kernel of the task giving up the receive rights of S.
DestroyPorts(S) ==
    /\ receive_right' = [p \in Ports |-> IF p \in Doomed(S) THEN "dead"
                                                            ELSE receive_right[p]]
    /\ queue' = [p \in Ports |-> IF p \in Doomed(S) THEN <<>> ELSE queue[p]]

\* channel(): MachReceiver::new, then receiver.sender().
Channel ==
    /\ ~panicked
    /\ LET port == FreshPort
           allocate == KCall("mach_port_allocate", port, "RECEIVE")
           extract == KCall("mach_port_extract_right", port, "MAKE_SEND")
       IN IF port = MACH_PORT_NULL
          THEN /\ last_call' = Returned("channel", <<>>, <<allocate>>, KERN_NO_SPACE, <<>>)
               /\ UNCHANGED <<receive_right, send_refs, receivers, senders>>
          ELSE /\ receive_right' = [receive_right EXCEPT ![port] = "task"]
               /\ send_refs' = Inc(send_refs, port)
               /\ receivers' = Inc(receivers, port)
               /\ senders' = Inc(senders, port)
               /\ last_call' = Returned("channel", <<>>, <<allocate, extract>>,
                                        KERN_SUCCESS, [sender |-> port, receiver |-> port])
    /\ UNCHANGED <<debug_assertions, port_set, members, queue, registry, opaques, server, released, sends, panicked>>

\* MachReceiver::sender on a receiver whose port field is p.
MachReceiver_sender(p) ==
    /\ ~panicked
    /\ receivers[p] > 0
    /\ senders[p] < MaxSenders
    /\ p \in Ports => send_refs[p] < MaxRefs
    /\ LET extract == KCall("mach_port_extract_right", p, "MAKE_SEND")
           os_result == ExtractRightStatus(p)
       IN IF p = MACH_PORT_NULL /\ debug_assertions
          THEN /\ panicked' = TRUE
               /\ last_call' = Returned("sender", p, <<>>, KERN_SUCCESS, <<>>)
               /\ UNCHANGED <<send_refs, senders>>
          ELSE IF os_result = KERN_SUCCESS
          THEN /\ send_refs' = Inc(send_refs, p)
               /\ senders' = Inc(senders, p)
               /\ last_call' = Returned("sender", p, <<extract>>, os_result, p)
               /\ UNCHANGED panicked
          ELSE /\ last_call' = Returned("sender", p, <<extract>>, os_result, <<>>)
               /\ UNCHANGED <<send_refs, senders, panicked>>
    /\ UNCHANGED <<debug_assertions, port_set, members, receive_right, queue, registry, receivers, opaques,
                   server, released, sends>>

\* A consume_port that leaves the name in the cell it reads.
ConsumePortKeeping(p) == [taken |-> p, left |-> p]

\* MachReceiver::consume_port: the name taken out of the cell and the name
\* left in it.
ConsumePort(p) == [taken |-> p, left |-> MACH_PORT_NULL]

\* MachReceiver::consume on a receiver whose port field is p.
MachReceiver_consume(p) ==
    /\ ~panicked
    /\ receivers[p] > 0
    /\ receivers[MACH_PORT_NULL] < MaxNull
    /\ IF p = MACH_PORT_NULL /\ debug_assertions
       THEN /\ panicked' = TRUE
            /\ last_call' = Returned("consume", p, <<>>, KERN_SUCCESS, <<>>)
            /\ UNCHANGED receivers
       ELSE /\ receivers' = Inc(Inc(Dec(receivers, p), ConsumePort(p).left),
                                ConsumePort(p).taken)
            /\ last_call' = Returned("consume", p, <<>>, KERN_SUCCESS, ConsumePort(p).taken)
            /\ UNCHANGED panicked
    /\ UNCHANGED <<debug_assertions, port_set, members, receive_right, send_refs, queue, registry, senders,
                   opaques, server, released, sends>>

\* A drop that lets go of the value without a kernel call.
DropReceiverForgetting(p) == [calls |-> <<>>, ok |-> TRUE, freed |-> {}]

\* What dropping a MachReceiver whose port field is p does to the kernel and
\* to the release history; ok is FALSE when the assertion fails.
DropReceiverEffect(p) ==
    IF p = MACH_PORT_NULL
    THEN [calls |-> <<>>, ok |-> TRUE, freed |-> {}]
    ELSE [calls |-> <<KCall("mach_port_mod_refs", p, "RECEIVE-1")>>,
          ok |-> ModRefsReceiveStatus(p) = KERN_SUCCESS,
          freed |-> IF ModRefsReceiveStatus(p) = KERN_SUCCESS THEN {p} ELSE {}]

\* impl Drop for MachReceiver, on a receiver whose port field is p.
MachReceiver_drop(p) ==
    /\ ~panicked
    /\ receivers[p] > 0
    /\ LET e == DropReceiverEffect(p)
       IN /\ receivers' = Dec(receivers, p)
          /\ released' = [q \in Ports |-> released[q] + IF e.calls # <<>> /\ q = p THEN 1 ELSE 0]
          /\ DestroyPorts(e.freed)
          /\ panicked' = ~e.ok
          /\ last_call' = Returned("drop_receiver", p, e.calls, KERN_SUCCESS, <<>>)
    /\ UNCHANGED <<debug_assertions, port_set, members, send_refs, registry, senders, opaques, server, sends>>

\* impl Clone for MachSender, on a sender whose port field is p.
MachSender_clone(p) ==
    /\ ~panicked
    /\ senders[p] > 0
    /\ senders[p] < MaxSenders
    /\ p \in Ports => send_refs[p] < MaxRefs
    /\ LET os_result == ModRefsSendStatus(p)
           call == KCall("mach_port_mod_refs", p, "SEND+1")
       IN IF os_result = KERN_SUCCESS
          THEN /\ send_refs' = Inc(send_refs, p)
               /\ senders' = Inc(senders, p)
               /\ last_call' = Returned("clone", p, <<call>>, os_result, p)
               /\ UNCHANGED panicked
          ELSE /\ panicked' = TRUE
               /\ last_call' = Returned("clone", p, <<call>>, os_result, <<>>)
               /\ UNCHANGED <<send_refs, senders>>
    /\ UNCHANGED <<debug_assertions, port_set, members, receive_right, queue, registry, receivers, opaques,
                   server, released, sends>>

\* A drop that accepts KERN_SUCCESS only.
DropToleratesSuccessOnly(os_result) == os_result = KERN_SUCCESS

\* The statuses of mach_port_mod_refs the drop of a MachSender accepts: a
\* port that was already destroyed gives KERN_INVALID_RIGHT.
DropTolerates(os_result) == os_result = KERN_SUCCESS \/ os_result = KERN_INVALID_RIGHT

\* impl Drop for MachSender, on a sender whose port field is p.
MachSender_drop(p) ==
    /\ ~panicked
    /\ senders[p] > 0
    /\ LET os_result == ModRefsSendStatus(p)
           call == KCall("mach_port_mod_refs", p, "SEND-1")
       IN /\ senders' = Dec(senders, p)
          /\ send_refs' = IF os_result = KERN_SUCCESS THEN Dec(send_refs, p) ELSE send_refs
          /\ panicked' = ~DropTolerates(os_result)
          /\ last_call' = Returned("drop_sender", p, <<call>>, os_result, <<>>)
    /\ UNCHANGED <<debug_assertions, port_set, members, receive_right, queue, registry, receivers, opaques,
                   server, released, sends>>

\* ----------------------------------------------------------- send and recv

\* The MachChannel values a program can pass to send.
Channels == [kind : {"Sender", "Receiver"}, port : Ports]
EndpointLists == UNION {[1..n -> Channels] : n \in 0..MaxEndpoints}

Count(ports, channel) == Cardinality({i \in 1..Len(ports) : ports[i] = channel})

\* The endpoint list is made of live values the caller owns, besides the
\* sender it sends on (borrowed by the call, so not in the list).  Scope: an
\* outgoing Sender names a live port, and the receive right of the
\* destination is not sent to itself.
Owned(p, ports) ==
    \A q \in Ports :
       /\ Count(ports, [kind |-> "Sender", port |-> q])
             <= senders[q] - (IF q = p THEN 1 ELSE 0)
       /\ Count(ports, [kind |-> "Receiver", port |-> q]) <= receivers[q]
       /\ Count(ports, [kind |-> "Sender", port |-> q]) > 0 => PortAlive(q)
       /\ Count(ports, [kind |-> "Receiver", port |-> q]) > 0 => q # p

\* A descriptor loop that drops each value instead of forgetting it: one
\* mach_port_mod_refs per endpoint.
DropCalls(ports) ==
    [i \in 1..Len(ports) |->
        KCall("mach_port_mod_refs", ports[i].port,
              IF ports[i].kind = "Sender" THEN "SEND-1" ELSE "RECEIVE-1")]

\* The kernel calls the descriptor loop issues for the values it disposes
\* of: mem::forget runs no destructor.
ForgetCalls(ports) == <<>>

\* The kernel's copy-in of one descriptor succeeds.
DescriptorValid(d) ==
    /\ d.type_ = MACH_MSG_PORT_DESCRIPTOR
    /\ \/ d.disposition = MACH_MSG_TYPE_COPY_SEND /\ d.name \in Ports
          /\ send_refs[d.name] > 0 /\ PortAlive(d.name)
       \/ d.disposition = MACH_MSG_TYPE_MOVE_RECEIVE /\ d.name \in Ports
          /\ receive_right[d.name] = "task"

\* mach_msg(MACH_SEND_MSG) on the buffer: the status, the receive rights the
\* kernel took out of the task, and whether the message is queued.  A failed
\* copy-in destroys the rights of the descriptors before the failing one.
KernelSend(message) ==
    LET dest == message.header.msgh_remote_port
        n == message.body.msgh_descriptor_count
        bad == {i \in 1..n : ~DescriptorValid(message.descriptors[i])}
        first == IF bad = {} THEN n + 1
                 ELSE CHOOSE i \in bad : \A j \in bad : i <= j
        moved == {message.descriptors[i].name : i \in
                    {j \in 1..(first - 1) :
                       message.descriptors[j].disposition = MACH_MSG_TYPE_MOVE_RECEIVE}}
    IN IF ~(dest \in Ports /\ send_refs[dest] > 0 /\ PortAlive(dest))
       THEN [os_result |-> MACH_SEND_INVALID_DEST, moved |-> {}, queued |-> FALSE]
       ELSE IF bad # {}
       THEN [os_result |-> MACH_SEND_INVALID_RIGHT, moved |-> moved, queued |-> FALSE]
       ELSE [os_result |-> MACH_MSG_SUCCESS, moved |-> moved, queued |-> TRUE]

\* MachSender::send on a sender whose port field is p.  The call blocks
\* while the destination queue is full.
MachSender_send(p, data, ports) ==
    /\ ~panicked
    /\ senders[p] > 0
    /\ sends < MaxSends
    /\ sends' = sends + 1
    /\ Owned(p, ports)
    /\ LET message == BuildMessage(p, data, ports)
           k == KernelSend(message)
           calls == ForgetCalls(ports) \o <<KCall("mach_msg_send", p, message.header.msgh_size)>>
       IN /\ k.queued => Queued < MaxQueue
          /\ senders' = [q \in Names |-> senders[q] - Count(ports, [kind |-> "Sender", port |-> q])]
          /\ receivers' = [q \in Names |-> receivers[q] - Count(ports, [kind |-> "Receiver", port |-> q])]
          /\ IF k.queued
             THEN /\ queue' = [queue EXCEPT ![p] = Append(@, [message |-> message,
                                                               sent_data |-> data,
                                                               sent_ports |-> ports])]
                  /\ receive_right' = [q \in Ports |-> IF q \in k.moved THEN "message"
                                                                        ELSE receive_right[q]]
             ELSE DestroyPorts(k.moved)
          /\ last_call' = Returned("send", [port |-> p, data |-> data, ports |-> ports],
                                   calls, k.os_result, message)
    /\ UNCHANGED <<debug_assertions, port_set, members, send_refs, registry, opaques, server, released, panicked>>

MACH_RCV_INVALID_NAME == 268451842

\* The kernel's copy-out of a queued message received on port: the header
\* names the port it arrived on and every descriptor carries the disposition
\* of the right as received.
KernelCopyout(message, port) ==
    [message EXCEPT
        !.header.msgh_local_port = port,
        !.header.msgh_remote_port = MACH_PORT_NULL,
        !.descriptors = [i \in 1..Len(@) |->
            [@[i] EXCEPT !.disposition =
                IF @ = MACH_MSG_TYPE_COPY_SEND THEN MACH_MSG_TYPE_MOVE_SEND ELSE @]]]

\* When the kernel cuts a receive short: never, at the first mach_msg of a
\* call of recv, or at the mach_msg of its retry.
Interrupts == {"no", "first", "retry"}

\* A receive of the kernel on port waits: the port is the task's, nothing
\* interrupts the wait and no message is queued.
RecvBlocked(port, interrupted) ==
    /\ port \in Ports
    /\ receive_right[port] = "task"
    /\ interrupted # "first"
    /\ queue[port] = <<>>

\* A retry that asks for the size the kernel reported, uncorrected.
ActualSizeUncorrected(msgh_size) == msgh_size

\* A retry that asks for twice the size the kernel reported.
ActualSizeDoubled(msgh_size) == msgh_size + msgh_size

\* The size recv asks for in its retry, from the size the kernel reported.
ActualSize(msgh_size) == msgh_size + SizeCorrection

\* fn recv(name), past its debug_assert: the kernel receive calls it issues
\* and its calls of the allocator, the status, the message it parses, and the
\* heap buffer it allocates and frees.  The kernel serves the first mach_msg
\* from the head of the queue of port and the mach_msg of the retry from the
\* head of the queue of again (both are name itself unless name is a port
\* set).  The binding of line 419 shadows the allocated_buffer of line 406
\* inside the retry arm only, so the test of line 452 reads None.
RecvFrom(name, port, again, interrupted) ==
    LET first == KCall("mach_msg_receive", name, SMALL_MESSAGE_SIZE)
        none == [calls |-> <<first>>, os_result |-> MACH_RCV_INVALID_NAME,
                 received |-> FALSE, message |-> <<>>, from |-> MACH_PORT_NULL,
                 allocated |-> 0, freed |-> FALSE]
    IN IF ~(port \in Ports /\ receive_right[port] = "task")
       THEN none
       ELSE IF interrupted = "first"
       THEN [none EXCEPT !.os_result = MACH_RCV_INTERRUPTED]
       ELSE LET head == Head(queue[port]).message
                size == head.header.msgh_size
                actual_size == ActualSize(size)
                malloc == KCall("malloc", MACH_PORT_NULL, actual_size)
                second == KCall("mach_msg_receive", name, actual_size)
                next == Head(queue[again]).message
            IN IF size + TrailerSize <= SMALL_MESSAGE_SIZE
               THEN [calls |-> <<first>>, os_result |-> MACH_MSG_SUCCESS,
                     received |-> TRUE, message |-> KernelCopyout(head, port),
                     from |-> port, allocated |-> 0, freed |-> FALSE]
               ELSE IF interrupted = "retry"
               THEN [calls |-> <<first, malloc, second>>,
                     os_result |-> MACH_RCV_INTERRUPTED,
                     received |-> FALSE, message |-> <<>>, from |-> MACH_PORT_NULL,
                     allocated |-> actual_size, freed |-> FALSE]
               ELSE IF next.header.msgh_size + TrailerSize <= actual_size
               THEN [calls |-> <<first, malloc, second>>, os_result |-> MACH_MSG_SUCCESS,
                     received |-> TRUE, message |-> KernelCopyout(next, again),
                     from |-> again, allocated |-> actual_size, freed |-> FALSE]
               ELSE [calls |-> <<first, malloc, second>>,
                     os_result |-> MACH_RCV_TOO_LARGE,
                     received |-> FALSE, message |-> <<>>, from |-> MACH_PORT_NULL,
                     allocated |-> actual_size, freed |-> FALSE]

\* fn recv(port) on the name of a port.
Recv(port, interrupted) == RecvFrom(port, port, port, interrupted)

\* OpaqueMachChannel::from_name.  Three fields are history: name, the name
\* the value was built from, right, the right the kernel delivered under the
\* name, and handles, the typed endpoints holding the received name that the
\* value has yielded so far.
OpaqueMachChannel_from_name(descriptor) ==
    [port |-> descriptor.name,
     name |-> descriptor.name,
     right |-> IF descriptor.disposition = MACH_MSG_TYPE_MOVE_RECEIVE THEN "receive"
                                                                      ELSE "send",
     handles |-> 0]

\* The OpaqueMachChannel values recv builds from a received message.
ReceivedChannels(message) ==
    [i \in 1..message.body.msgh_descriptor_count |->
        OpaqueMachChannel_from_name(message.descriptors[i])]

\* What recv returns for a received message, with the arguments of the send
\* that queued it (history).
RecvValue(r, entry) ==
    [port |-> ParseMessage(r.message).port,
     payload |-> ParseMessage(r.message).payload,
     ports |-> ParseMessage(r.message).ports,
     sent_data |-> entry.sent_data,
     sent_ports |-> entry.sent_ports]

\* The effect of a successful receive on port: the message leaves the queue,
\* the rights it carries enter the task, the opaque channels are built.
Delivered(port, r) ==
    /\ Len(opaques) + Len(ReceivedChannels(r.message)) <= MaxOpaque
    /\ queue' = [queue EXCEPT ![port] = Tail(@)]
    /\ send_refs' = [q \in Ports |-> send_refs[q] +
            Cardinality({i \in 1..Len(r.message.descriptors) :
                /\ r.message.descriptors[i].name = q
                /\ r.message.descriptors[i].disposition = MACH_MSG_TYPE_MOVE_SEND})]
    /\ receive_right' = [q \in Ports |->
            IF \E i \in 1..Len(r.message.descriptors) :
                /\ r.message.descriptors[i].name = q
                /\ r.message.descriptors[i].disposition = MACH_MSG_TYPE_MOVE_RECEIVE
            THEN "task" ELSE receive_right[q]]
    /\ opaques' = opaques \o ReceivedChannels(r.message)
    /\ \A q \in Ports : send_refs'[q] <= MaxRefs

\* MachReceiver::recv on a receiver whose port field is p.
MachReceiver_recv(p, interrupted) ==
    /\ ~panicked
    /\ receivers[p] > 0
    /\ ~RecvBlocked(p, interrupted)
    /\ IF p = MACH_PORT_NULL /\ debug_assertions
       THEN /\ panicked' = TRUE
            /\ last_call' = Returned("recv", p, <<>>, KERN_SUCCESS, <<>>)
            /\ UNCHANGED <<queue, send_refs, receive_right, opaques>>
       ELSE LET r == Recv(p, interrupted)
            IN IF r.received
               THEN /\ Delivered(p, r)
                    /\ last_call' = Returned("recv", p, r.calls, r.os_result,
                                             RecvValue(r, Head(queue[p])))
                    /\ UNCHANGED panicked
               ELSE /\ last_call' = Returned("recv", p, r.calls, r.os_result, <<>>)
                    /\ UNCHANGED <<queue, send_refs, receive_right, opaques, panicked>>
    /\ UNCHANGED <<debug_assertions, port_set, members, registry, receivers, senders, server, released, sends>>

\* ------------------------------------------------------- OpaqueMachChannel

RemoveAt(seq, i) == SubSeq(seq, 1, i - 1) \o SubSeq(seq, i + 1, Len(seq))

\* A replace that leaves the name in the field it reads.
ReplacePortKeeping(port) == [taken |-> port, left |-> port]

\* mem::replace(&mut self.port, MACH_PORT_NULL): the name returned and the
\* name left in the field.
ReplacePort(port) == [taken |-> port, left |-> MACH_PORT_NULL]

\* The i-th opaque channel after a classification took its name.
Classified(i) ==
    [opaques EXCEPT ![i].port = ReplacePort(opaques[i].port).left,
                    ![i].handles = @ + (IF ReplacePort(opaques[i].port).taken # MACH_PORT_NULL
                                        THEN 1 ELSE 0)]

\* Scope: the program classifies a received endpoint as what was sent.
Classifiable(i, right) ==
    /\ i \in 1..Len(opaques)
    /\ opaques[i].port # MACH_PORT_NULL => opaques[i].right = right

\* OpaqueMachChannel::to_sender on the i-th live opaque channel.
OpaqueMachChannel_to_sender(i) ==
    /\ ~panicked
    /\ Classifiable(i, "send")
    /\ senders[ReplacePort(opaques[i].port).taken] < MaxSenders
    /\ senders' = Inc(senders, ReplacePort(opaques[i].port).taken)
    /\ opaques' = Classified(i)
    /\ last_call' = Returned("to_sender", [index |-> i, port |-> opaques[i].port], <<>>,
                             KERN_SUCCESS, ReplacePort(opaques[i].port).taken)
    /\ UNCHANGED <<debug_assertions, port_set, members, receive_right, send_refs, queue, registry, receivers,
                   server, released, sends, panicked>>

\* OpaqueMachChannel::to_receiver on the i-th live opaque channel.
OpaqueMachChannel_to_receiver(i) ==
    /\ ~panicked
    /\ Classifiable(i, "receive")
    /\ ReplacePort(opaques[i].port).taken = MACH_PORT_NULL
          => receivers[MACH_PORT_NULL] < MaxNull
    /\ receivers' = Inc(receivers, ReplacePort(opaques[i].port).taken)
    /\ opaques' = Classified(i)
    /\ last_call' = Returned("to_receiver", [index |-> i, port |-> opaques[i].port], <<>>,
                             KERN_SUCCESS, ReplacePort(opaques[i].port).taken)
    /\ UNCHANGED <<debug_assertions, port_set, members, receive_right, send_refs, queue, registry, senders,
                   server, released, sends, panicked>>

\* impl Drop for OpaqueMachChannel, on the i-th live opaque channel.
OpaqueMachChannel_drop(i) ==
    /\ ~panicked
    /\ i \in 1..Len(opaques)
    /\ opaques' = RemoveAt(opaques, i)
    /\ panicked' = (debug_assertions /\ opaques[i].port # MACH_PORT_NULL)
    /\ last_call' = Returned("drop_opaque", [index |-> i, port |-> opaques[i].port], <<>>,
                             KERN_SUCCESS, <<>>)
    /\ UNCHANGED <<debug_assertions, port_set, members, receive_right, send_refs, queue, registry, receivers,
                   senders, server, released, sends>>

\* -------------------------------------------------------- MachReceiverSet

\* The name mach_port_allocate(MACH_PORT_RIGHT_PORT_SET) returns: a name of
\* the task that names no port.
SetName == MaxPorts + 1

\* MachReceiverSet::new.  One set is made in a run.
MachReceiverSet_new ==
    /\ ~panicked
    /\ port_set = "none"
    /\ port_set' = "live"
    /\ last_call' = Returned("new_set", <<>>,
                             <<KCall("mach_port_allocate", SetName, "PORT_SET")>>,
                             KERN_SUCCESS, SetName)
    /\ UNCHANGED <<debug_assertions, receive_right, send_refs, queue, registry, receivers,
                   senders, opaques, server, members, released, sends, panicked>>

\* Status of mach_port_move_member(name, set).
MoveMemberStatus(p) ==
    IF p \in Ports /\ receive_right[p] = "task" THEN KERN_SUCCESS ELSE KERN_INVALID_NAME

\* MachReceiverSet::add of a receiver whose port field is p, with the drop
\* of the receiver at the end of the call.
MachReceiverSet_add(p) ==
    /\ ~panicked
    /\ port_set = "live"
    /\ receivers[p] > 0
    /\ IF p = MACH_PORT_NULL /\ debug_assertions
       THEN /\ panicked' = TRUE
            /\ last_call' = Returned("add", p, <<>>, KERN_SUCCESS, <<>>)
            /\ UNCHANGED <<receivers, members, released, receive_right, queue>>
       ELSE LET receiver_port == ConsumePort(p).taken
                os_result == MoveMemberStatus(receiver_port)
                move == KCall("mach_port_move_member", receiver_port, SetName)
                e == DropReceiverEffect(ConsumePort(p).left)
            IN /\ receivers' = Dec(receivers, p)
               /\ members' = IF os_result = KERN_SUCCESS THEN members \cup {receiver_port}
                                                           ELSE members
               /\ released' = [q \in Ports |-> released[q] +
                                  IF e.calls # <<>> /\ q = ConsumePort(p).left THEN 1 ELSE 0]
               /\ DestroyPorts(e.freed)
               /\ panicked' = ~e.ok
               /\ last_call' = Returned("add", p, <<move>> \o e.calls, os_result,
                                        IF os_result = KERN_SUCCESS THEN receiver_port
                                                                    ELSE <<>>)
    /\ UNCHANGED <<debug_assertions, send_refs, registry, senders, opaques, server, port_set,
                   sends>>

\* fn recv(port) on the name of the port set: the kernel serves the first
\* mach_msg from the member port and the mach_msg of the retry from the
\* member again.
SetRecv(port, again, interrupted) ==
    IF interrupted = "first"
    THEN [calls |-> <<KCall("mach_msg_receive", SetName, SMALL_MESSAGE_SIZE)>>,
          os_result |-> MACH_RCV_INTERRUPTED, received |-> FALSE, message |-> <<>>,
          from |-> MACH_PORT_NULL, allocated |-> 0, freed |-> FALSE]
    ELSE RecvFrom(SetName, port, again, interrupted)

\* MachReceiverSet::recv.  The call blocks while no member has a message.
MachReceiverSet_recv(port, again, interrupted) ==
    /\ ~panicked
    /\ port_set = "live"
    /\ interrupted # "first" =>
          /\ port \in members /\ queue[port] # <<>>
          /\ again \in members /\ queue[again] # <<>>
    /\ LET r == SetRecv(port, again, interrupted)
       IN IF r.received
          THEN /\ Delivered(r.from, r)
               /\ last_call' = Returned("set_recv", [port |-> port, again |-> again],
                                        r.calls, r.os_result,
                                        RecvValue(r, Head(queue[r.from])))
          ELSE /\ last_call' = Returned("set_recv", [port |-> port, again |-> again],
                                        r.calls, r.os_result, <<>>)
               /\ UNCHANGED <<queue, send_refs, receive_right, opaques>>
    /\ UNCHANGED <<debug_assertions, registry, receivers, senders, server, port_set, members,
                   released, sends, panicked>>

\* The end of the life of the MachReceiverSet value: the type has no Drop,
\* so no call is made.
MachReceiverSet_drop ==
    /\ ~panicked
    /\ port_set = "live"
    /\ port_set' = "dropped"
    /\ last_call' = Returned("drop_set", SetName, <<>>, KERN_SUCCESS, <<>>)
    /\ UNCHANGED <<debug_assertions, receive_right, send_refs, queue, registry, receivers,
                   senders, opaques, server, members, released, sends, panicked>>

\* ------------------------------------- bootstrap names, MachOneShotServer

BOOTSTRAP_UNKNOWN_SERVICE == 1102

\* MachOneShotServer::new up to the registration loop: MachReceiver::new,
\* then register_bootstrap_name as far as the extracted send right.
MachOneShotServer_new ==
    /\ ~panicked
    /\ server.state = "none"
    /\ LET port == FreshPort
           allocate == KCall("mach_port_allocate", port, "RECEIVE")
           special == KCall("task_get_special_port", MACH_PORT_NULL, "BOOTSTRAP")
           extract == KCall("mach_port_extract_right", port, "MAKE_SEND")
       IN IF port = MACH_PORT_NULL
          THEN /\ last_call' = Returned("new_server", <<>>, <<allocate>>, KERN_NO_SPACE, <<>>)
               /\ UNCHANGED <<receive_right, send_refs, server>>
          ELSE /\ receive_right' = [receive_right EXCEPT ![port] = "task"]
               /\ send_refs' = Inc(send_refs, port)
               /\ server' = [state |-> "registering", receiver |-> port, name |-> 0]
               /\ last_call' = Returned("new_server", <<>>, <<allocate, special, extract>>,
                                        KERN_SUCCESS, <<>>)
    /\ UNCHANGED <<debug_assertions, port_set, members, queue, registry, receivers, senders, opaques, released,
                   sends, panicked>>

\* The answer of bootstrap_register2(name, right): a taken name is in use;
\* for a free name the registry accepts or refuses.
RegisterStatus(name, refused) ==
    IF registry[name] # Free THEN BOOTSTRAP_NAME_IN_USE
    ELSE IF refused THEN BOOTSTRAP_NOT_PRIVILEGED
    ELSE BOOTSTRAP_SUCCESS

\* A registration loop that gives up on a name in use.
LoopOutcomeNoRetry(os_result) ==
    IF os_result # BOOTSTRAP_SUCCESS THEN "err" ELSE "ok"

\* A registration loop that draws a new name after every failure.
LoopOutcomeRetryAll(os_result) ==
    IF os_result # BOOTSTRAP_SUCCESS THEN "retry" ELSE "ok"

\* What the loop of register_bootstrap_name does with the status of one
\* bootstrap_register2: continue, return Err, or break and return Ok.
LoopOutcome(os_result) ==
    IF os_result = BOOTSTRAP_NAME_IN_USE THEN "retry"
    ELSE IF os_result # BOOTSTRAP_SUCCESS THEN "err"
    ELSE "ok"

\* One turn of the loop of register_bootstrap_name with the random name
\* drawn, and the rest of MachOneShotServer::new when the loop ends.
MachOneShotServer_register(name, refused) ==
    /\ ~panicked
    /\ server.state = "registering"
    /\ LET os_result == RegisterStatus(name, refused)
           port == server.receiver
           call == KCall("bootstrap_register2", name, port)
           e == DropReceiverEffect(port)
       IN IF LoopOutcome(os_result) = "retry"
          THEN /\ last_call' = Returned("register", name, <<call>>, os_result, "retry")
               /\ UNCHANGED <<registry, server, receive_right, queue, released, sends, panicked>>
          ELSE IF LoopOutcome(os_result) = "err"
          THEN /\ server' = NoServer
               /\ released' = [released EXCEPT ![port] = @ + 1]
               /\ DestroyPorts(e.freed)
               /\ panicked' = ~e.ok
               /\ last_call' = Returned("register", name, <<call>> \o e.calls, os_result, "err")
               /\ UNCHANGED registry
          ELSE /\ registry' = [registry EXCEPT ![name] = port]
               /\ server' = [state |-> "live", receiver |-> port, name |-> name]
               /\ last_call' = Returned("register", name, <<call>>, os_result, "ok")
               /\ UNCHANGED <<receive_right, queue, released, sends, panicked>>
    /\ UNCHANGED <<debug_assertions, port_set, members, send_refs, receivers, senders, opaques, sends>>

\* MachSender::connect(name).  Scope: the names of unrelated processes are
\* not looked up.
MachSender_connect(name) ==
    /\ ~panicked
    /\ registry[name] # Foreign
    /\ LET port == registry[name]
           special == KCall("task_get_special_port", MACH_PORT_NULL, "BOOTSTRAP")
           look_up == KCall("bootstrap_look_up", name, MACH_PORT_NULL)
       IN IF port \in Ports /\ PortAlive(port)
          THEN /\ senders[port] < MaxSenders
               /\ send_refs[port] < MaxRefs
               /\ send_refs' = Inc(send_refs, port)
               /\ senders' = Inc(senders, port)
               /\ last_call' = Returned("connect", name, <<special, look_up>>,
                                        BOOTSTRAP_SUCCESS, port)
          ELSE /\ last_call' = Returned("connect", name, <<special, look_up>>,
                                        BOOTSTRAP_UNKNOWN_SERVICE, <<>>)
               /\ UNCHANGED <<send_refs, senders>>
    /\ UNCHANGED <<debug_assertions, port_set, members, receive_right, queue, registry, receivers, opaques,
                   server, released, sends, panicked>>

\* MachReceiver::unregister_global_name(name): the registry after the call
\* and the status, which the caller drops.
Unregister(name, refused) ==
    [calls |-> <<KCall("task_get_special_port", MACH_PORT_NULL, "BOOTSTRAP"),
                 KCall("bootstrap_register2", name, MACH_PORT_NULL)>>,
     os_result |-> IF refused THEN BOOTSTRAP_NOT_PRIVILEGED ELSE BOOTSTRAP_SUCCESS,
     registry |-> IF refused THEN registry ELSE [registry EXCEPT ![name] = Free]]

\* A take that leaves the receiver in the server it reads.
TakeReceiverKeeping(port) == [taken |-> port, left |-> port]

\* mem::replace(&mut self.receiver, None).unwrap() in accept: the receiver
\* returned and the port of the receiver left in the server (null for None).
TakeReceiver(port) == [taken |-> port, left |-> MACH_PORT_NULL]

\* MachOneShotServer::accept, with the drop of the server at its end.
MachOneShotServer_accept(interrupted, refused) ==
    /\ ~panicked
    /\ server.state = "live"
    /\ ~RecvBlocked(server.receiver, interrupted)
    /\ LET port == server.receiver
           r == Recv(port, interrupted)
           u == Unregister(server.name, refused)
           left == IF r.received THEN TakeReceiver(port).left ELSE port
           e == DropReceiverEffect(left)
       IN /\ registry' = u.registry
          /\ server' = NoServer
          /\ released' = [q \in Ports |-> released[q] + IF e.calls # <<>> /\ q = left THEN 1 ELSE 0]
          /\ panicked' = ~e.ok
          /\ IF r.received
             THEN /\ Len(opaques) + Len(ReceivedChannels(r.message)) <= MaxOpaque
                  /\ send_refs' = [q \in Ports |-> send_refs[q] +
                        Cardinality({i \in 1..Len(r.message.descriptors) :
                            /\ r.message.descriptors[i].name = q
                            /\ r.message.descriptors[i].disposition = MACH_MSG_TYPE_MOVE_SEND})]
                  /\ \A q \in Ports : send_refs'[q] <= MaxRefs
                  /\ opaques' = opaques \o ReceivedChannels(r.message)
                  /\ receivers' = Inc(receivers, TakeReceiver(port).taken)
                  /\ LET got == [q \in Ports |->
                                  IF \E i \in 1..Len(r.message.descriptors) :
                                      /\ r.message.descriptors[i].name = q
                                      /\ r.message.descriptors[i].disposition
                                            = MACH_MSG_TYPE_MOVE_RECEIVE
                                  THEN "task" ELSE receive_right[q]]
                         rest == [queue EXCEPT ![port] = Tail(@)]
                     IN /\ receive_right' = [q \in Ports |->
                              IF e.freed # {} /\ q \in Doomed(e.freed) THEN "dead" ELSE got[q]]
                        /\ queue' = [q \in Ports |->
                              IF e.freed # {} /\ q \in Doomed(e.freed) THEN <<>> ELSE rest[q]]
                  /\ last_call' = Returned("accept",
                                           [port |-> port, name |-> server.name],
                                           r.calls \o u.calls \o e.calls, r.os_result,
                                           [receiver |-> TakeReceiver(port).taken,
                                            recv |-> RecvValue(r, Head(queue[port]))])
             ELSE /\ DestroyPorts(e.freed)
                  /\ last_call' = Returned("accept",
                                           [port |-> port, name |-> server.name],
                                           r.calls \o u.calls \o e.calls, r.os_result, <<>>)
                  /\ UNCHANGED <<send_refs, opaques, receivers>>
    /\ UNCHANGED <<debug_assertions, port_set, members, senders, sends>>

\* impl Drop for MachOneShotServer on a server accept was not called on,
\* followed by the drop of its receiver field.
MachOneShotServer_drop(refused) ==
    /\ ~panicked
    /\ server.state = "live"
    /\ LET port == server.receiver
           u == Unregister(server.name, refused)
           e == DropReceiverEffect(port)
       IN /\ registry' = u.registry
          /\ server' = NoServer
          /\ released' = [released EXCEPT ![port] = @ + 1]
          /\ DestroyPorts(e.freed)
          /\ panicked' = ~e.ok
          /\ last_call' = Returned("drop_server", [port |-> port, name |-> server.name],
                                   u.calls \o e.calls, u.os_result, <<>>)
    /\ UNCHANGED <<debug_assertions, port_set, members, send_refs, receivers, senders, opaques, sends>>

\* ---------------------------------------------------------- specification

\* The payloads of the specifications that are not about payload bytes: the
\* empty one and the longest one.
ShortPayloads == {Payload(0), Payload(MaxLen)}

InitChannels ==
    /\ Init
    /\ registry = [name \in BootstrapNames |-> Free]

\* Receivers, messages and opaque channels: channel, consume, send, recv,
\* classification and the drops of receivers and opaque channels.
Next ==
    \/ Channel
    \/ \E p \in Names : MachReceiver_consume(p)
    \/ \E p \in Names : MachReceiver_drop(p)
    \/ \E p \in Names, data \in ShortPayloads, ports \in EndpointLists :
          MachSender_send(p, data, ports)
    \/ \E p \in Names, interrupted \in Interrupts : MachReceiver_recv(p, interrupted)
    \/ \E i \in 1..MaxOpaque : OpaqueMachChannel_to_sender(i)
    \/ \E i \in 1..MaxOpaque : OpaqueMachChannel_to_receiver(i)
    \/ \E i \in 1..MaxOpaque : OpaqueMachChannel_drop(i)

Spec == InitChannels /\ [][Next]_vars

\* The bytes on the wire: every payload length with every endpoint list.
NextWire ==
    \/ Channel
    \/ \E p \in Names, data \in Payloads, ports \in EndpointLists :
          MachSender_send(p, data, ports)
    \/ \E p \in Names : MachReceiver_recv(p, "no")
    \/ \E i \in 1..MaxOpaque : OpaqueMachChannel_drop(i)

SpecWire == InitChannels /\ [][NextWire]_vars

\* The payload lengths around the size of the small receive buffer: empty,
\* the longest that fits it with the kernel's trailer, one more, the first
\* longer than the buffer, and the longest sent.
LargeLens ==
    {0,
     SMALL_MESSAGE_SIZE - SizeOfMessage - TrailerSize,
     SMALL_MESSAGE_SIZE - SizeOfMessage - TrailerSize + 1,
     SMALL_MESSAGE_SIZE + 1,
     MaxLargeLen}

LargePayloads == {Payload(n) : n \in LargeLens}

\* Receiver sets and messages larger than the small buffer: channel, the
\* set, add, send of a bare payload, recv on a port and on the set, and the
\* drops of receivers and of the set.
NextLarge ==
    \/ Channel
    \/ MachReceiverSet_new
    \/ \E p \in Names : MachReceiverSet_add(p)
    \/ \E p \in Names, data \in LargePayloads : MachSender_send(p, data, <<>>)
    \/ \E p \in Names, interrupted \in Interrupts : MachReceiver_recv(p, interrupted)
    \/ \E port \in Ports, again \in Ports, interrupted \in Interrupts :
          MachReceiverSet_recv(port, again, interrupted)
    \/ MachReceiverSet_drop
    \/ \E p \in Names : MachReceiver_drop(p)

SpecLarge == InitChannels /\ [][NextLarge]_vars

\* Sender reference counting: sender, clone, drop, and senders travelling
\* through messages.
NextSenders ==
    \/ Channel
    \/ \E p \in Names : MachReceiver_sender(p)
    \/ \E p \in Names : MachSender_clone(p)
    \/ \E p \in Names : MachSender_drop(p)
    \/ \E p \in Names, data \in ShortPayloads, ports \in EndpointLists :
          MachSender_send(p, data, ports)
    \/ \E p \in Names : MachReceiver_recv(p, "no")
    \/ \E i \in 1..MaxOpaque : OpaqueMachChannel_to_sender(i)
    \/ \E i \in 1..MaxOpaque : OpaqueMachChannel_drop(i)

SpecSenders == InitChannels /\ [][NextSenders]_vars

\* The one-shot server: construction, connect, send, accept, and the drops
\* of what these return.
NextServer ==
    \/ MachOneShotServer_new
    \/ \E name \in BootstrapNames, refused \in BOOLEAN :
          MachOneShotServer_register(name, refused)
    \/ \E name \in BootstrapNames : MachSender_connect(name)
    \/ \E p \in Names, data \in ShortPayloads, ports \in EndpointLists :
          MachSender_send(p, data, ports)
    \/ \E interrupted \in Interrupts, refused \in BOOLEAN :
          MachOneShotServer_accept(interrupted, refused)
    \/ \E refused \in BOOLEAN : MachOneShotServer_drop(refused)
    \/ \E p \in Names : MachSender_drop(p)
    \/ \E p \in Names : MachReceiver_drop(p)

SpecServer == Init /\ [][NextServer]_vars

\* One turn of the loop of register_bootstrap_name, whatever the name drawn
\* and the answer of the registry.
RegisterTurn ==
    \E name \in BootstrapNames, refused \in BOOLEAN :
       MachOneShotServer_register(name, refused)

\* A turn of the loop that the registry answers with another status than
\* BOOTSTRAP_NAME_IN_USE.
RegisterAnswered ==
    \E name \in BootstrapNames, refused \in BOOLEAN :
       /\ RegisterStatus(name, refused) # BOOTSTRAP_NAME_IN_USE
       /\ MachOneShotServer_register(name, refused)

\* The one-shot server with a thread in new that keeps running its loop,
\* and a registry that does not answer name-in-use for ever when the names
\* drawn include free ones.
SpecServerFair ==
    Init /\ [][NextServer]_vars /\ WF_vars(RegisterTurn) /\ SF_vars(RegisterAnswered)

\* ------------------------------------------------------------------ claims

SendReturned == last_call.op = "send"
SendSucceeded == SendReturned /\ last_call.os_result = MACH_MSG_SUCCESS
RecvSucceeded == last_call.op = "recv" /\ last_call.calls # <<>>
                    /\ last_call.os_result = MACH_MSG_SUCCESS

\* A step of the program that is a call of send.
SendStep == sends' = sends + 1

\* C1: the payload recv returns is the payload that was sent: the same
\* length and the same bytes, nothing appended.
C1_PayloadRoundTrip ==
    RecvSucceeded => last_call.value.payload = last_call.value.sent_data

\* C2: the message send builds carries one descriptor per endpoint, in input
\* order, named after the endpoint and tagged copied-send-right for a Sender
\* and moved-receive-right for a Receiver; recv returns one opaque channel per
\* endpoint, the i-th naming the port of the i-th endpoint.
C2_DescriptorsMatchEndpoints ==
    /\ SendReturned =>
          LET ports == last_call.args.ports
              message == last_call.value
          IN /\ message.body.msgh_descriptor_count = Len(ports)
             /\ Len(message.descriptors) = Len(ports)
             /\ \A i \in 1..Len(ports) :
                   /\ message.descriptors[i].name = ports[i].port
                   /\ message.descriptors[i].disposition =
                         IF ports[i].kind = "Sender" THEN MACH_MSG_TYPE_COPY_SEND
                                                     ELSE MACH_MSG_TYPE_MOVE_RECEIVE
    /\ RecvSucceeded =>
          /\ Len(last_call.value.ports) = Len(last_call.value.sent_ports)
          /\ \A i \in 1..Len(last_call.value.ports) :
                last_call.value.ports[i] = last_call.value.sent_ports[i].port

\* C3: after a successful send the task holds no reference for an element of
\* the endpoint list: the receive right of an outgoing Receiver has left the
\* task, and for each outgoing Sender the task's send-right count is one
\* lower than before the call.
C3_NoReferenceLeftAfterSend ==
    [][(SendStep /\ last_call'.os_result = MACH_MSG_SUCCESS) =>
          \A q \in Ports :
             /\ send_refs'[q] = send_refs[q]
                   - Count(last_call'.args.ports, [kind |-> "Sender", port |-> q])
             /\ Count(last_call'.args.ports, [kind |-> "Receiver", port |-> q]) > 0
                   => receive_right'[q] # "task"]_vars

\* The live values of the task that own a send-right reference on p: the
\* MachSender values, and the opaque channels that received a send right and
\* still hold it.
SendRightOwners(p) ==
    senders[p] + Cardinality({i \in 1..Len(opaques) :
                                 opaques[i].port = p /\ opaques[i].right = "send"})

\* C4: the send-right reference count the task holds on a live port equals
\* the number of live senders for that port (an unclassified opaque channel
\* holding a received send right counted as one).
C4_RefsEqualLiveSenders ==
    \A p \in Ports : PortAlive(p) => send_refs[p] = SendRightOwners(p)

\* C5: a receive right is released at most once over any sequence of consume
\* calls and drops, and at most one MachReceiver holds it: consume returns a
\* receiver holding the port of the receiver it was called on, the drop of a
\* nulled receiver makes no kernel call, and the drop of the receiver that
\* holds the port makes exactly one release call, after which nothing holds
\* the port.
C5_ReceiveRightReleasedOnce ==
    /\ \A p \in Ports :
          /\ released[p] <= 1
          /\ receivers[p] <= 1
          /\ released[p] = 1 => receivers[p] = 0 /\ receive_right[p] = "dead"
    /\ (last_call.op = "consume" /\ ~panicked) => last_call.value = last_call.args
    /\ last_call.op = "drop_receiver" =>
          IF last_call.args = MACH_PORT_NULL
          THEN last_call.calls = <<>>
          ELSE /\ last_call.calls = <<KCall("mach_port_mod_refs", last_call.args, "RECEIVE-1")>>
               /\ released[last_call.args] = 1

\* The receiver a consume returned was dropped, releasing the port, while the
\* nulled original is still alive.
C5_Witness_ConsumedThenDropped ==
    /\ last_call.op = "drop_receiver"
    /\ last_call.args # MACH_PORT_NULL
    /\ released[last_call.args] = 1
    /\ receivers[MACH_PORT_NULL] > 0
    /\ ~panicked

\* C6: a call of send, whatever it returns, takes every element of the
\* endpoint list out of the caller's hands and runs no destructor for any of
\* them: the only kernel call it makes is the send itself, no receive right
\* is released and no send-right count changes.
C6_SendConsumesWithoutRelease ==
    [][SendStep =>
          /\ Len(last_call'.calls) = 1
          /\ last_call'.calls[1].fn = "mach_msg_send"
          /\ released' = released
          /\ send_refs' = send_refs
          /\ \A q \in Ports :
                /\ senders'[q] = senders[q]
                      - Count(last_call'.args.ports, [kind |-> "Sender", port |-> q])
                /\ receivers'[q] = receivers[q]
                      - Count(last_call'.args.ports, [kind |-> "Receiver", port |-> q])]_vars

\* A send that carried endpoints returned a transmit failure.
C6_Witness_FailedSendWithEndpoints ==
    /\ SendReturned
    /\ last_call.os_result # MACH_MSG_SUCCESS
    /\ Len(last_call.args.ports) > 0

\* C7: the drop of an opaque channel that still holds a port name raises a
\* fatal assertion.
C7_UnclassifiedDropIsFatal ==
    (last_call.op = "drop_opaque" /\ last_call.args.port # MACH_PORT_NULL) => panicked

\* C8: an opaque channel yields at most one typed endpoint holding the
\* received port, and is null once it has: a call of to_sender or to_receiver
\* returns the name the channel held and leaves the channel null, so every
\* call after the first returns a null-backed endpoint.
C8_OneTypedHandlePerOpaque ==
    /\ \A i \in 1..Len(opaques) :
          \/ opaques[i].port # MACH_PORT_NULL /\ opaques[i].handles = 0
          \/ opaques[i].port = MACH_PORT_NULL /\ opaques[i].handles = 1
    /\ last_call.op \in {"to_sender", "to_receiver"} =>
          /\ last_call.value = last_call.args.port
          /\ opaques[last_call.args.index].port = MACH_PORT_NULL

\* A second classification of an opaque channel returned a null-backed
\* endpoint.
C8_Witness_SecondCallReturnsNull ==
    /\ last_call.op \in {"to_sender", "to_receiver"}
    /\ last_call.args.port = MACH_PORT_NULL
    /\ last_call.value = MACH_PORT_NULL
    /\ opaques[last_call.args.index].handles = 1

\* A step of the program that is a call of accept on the live server.
AcceptStep == server.state = "live" /\ server'.state = "none" /\ last_call'.op = "accept"

\* A step of the program that destroys the live server.
ServerDestroyed == server.state = "live" /\ server'.state = "none"

AcceptSucceeded == last_call.op = "accept" /\ last_call.os_result = MACH_MSG_SUCCESS

\* C9: while the server is alive its name resolves to the server's port,
\* the payload accept returns is the payload that was sent on the send right
\* connect returned, and when the server is destroyed (by accept, successful
\* or not, or without accept) its name is unpublished unless the registry
\* refuses the request.
C9_NamePublishedWhileServerLives ==
    /\ [](server.state = "live" =>
             /\ registry[server.name] = server.receiver
             /\ receive_right[server.receiver] = "task")
    /\ [](AcceptSucceeded => last_call.value.recv.payload = last_call.value.recv.sent_data)
    /\ [][ServerDestroyed =>
             /\ \E i \in 1..Len(last_call'.calls) :
                   last_call'.calls[i] = KCall("bootstrap_register2", server.name,
                                               MACH_PORT_NULL)
             /\ registry'[server.name] = Free \/ registry' = registry]_vars

\* The receive calls among a sequence of kernel calls.
ReceiveCalls(calls) == {i \in 1..Len(calls) : calls[i].fn = "mach_msg_receive"}

RegisterStep == server.state = "registering" /\ last_call'.op = "register"

\* C11: new never returns the name-in-use status: after a name-in-use answer
\* new is still running and will make another attempt, while any other
\* status that is not success ends new at once with that status as its
\* error, and success ends it with the server published.
C11_NameInUseIsRetried ==
    [][RegisterStep =>
          LET os_result == last_call'.os_result
          IN /\ Len(last_call'.calls) >= 1
             /\ last_call'.calls[1].fn = "bootstrap_register2"
             /\ os_result = BOOTSTRAP_NAME_IN_USE =>
                   /\ last_call'.value = "retry"
                   /\ server' = server
                   /\ Len(last_call'.calls) = 1
             /\ os_result \notin {BOOTSTRAP_NAME_IN_USE, BOOTSTRAP_SUCCESS} =>
                   /\ last_call'.value = "err"
                   /\ server'.state = "none"
                   /\ registry' = registry
             /\ os_result = BOOTSTRAP_SUCCESS =>
                   /\ last_call'.value = "ok"
                   /\ server'.state = "live"
             /\ server'.state # "registering" => os_result # BOOTSTRAP_NAME_IN_USE]_vars

\* new, answered name-in-use, is still registering.
C11_Witness_RetryAfterNameInUse ==
    /\ last_call.op = "register"
    /\ last_call.os_result = BOOTSTRAP_NAME_IN_USE
    /\ last_call.value = "retry"
    /\ server.state = "registering"

\* A step of the program that is a call of recv on the receiver set.
SetRecvStep == port_set = "live" /\ last_call'.op = "set_recv"

\* C12: add returns the port name of the receiver it took, and a recv on the
\* set that succeeds, on the first receive or on the retry, returns the
\* identifier of the member the message it returns was sent to: that member
\* loses the message at the head of its queue, whose destination is the
\* identifier, and no other member loses a message.
C12_SetRecvIdentifiesMember ==
    [][/\ (port_set = "live" /\ last_call'.op = "add"
             /\ last_call'.os_result = KERN_SUCCESS /\ ~panicked') =>
             /\ last_call'.value = last_call'.args
             /\ last_call'.value \in members'
       /\ (SetRecvStep /\ last_call'.os_result = MACH_MSG_SUCCESS) =>
             LET id == last_call'.value.port
             IN /\ id \in members
                /\ queue[id] # <<>>
                /\ Head(queue[id]).message.header.msgh_remote_port = id
                /\ Head(queue[id]).sent_data = last_call'.value.sent_data
                /\ queue'[id] = Tail(queue[id])
                /\ \A q \in Ports \ {id} : queue'[q] = queue[q]]_vars

\* With two members in the set, a recv on the set that took the retry
\* returned a message and the identifier of a member.
C12_Witness_RetryOnSetOfTwo ==
    /\ last_call.op = "set_recv"
    /\ last_call.os_result = MACH_MSG_SUCCESS
    /\ Len(last_call.calls) = 3
    /\ Cardinality(members) = 2
    /\ last_call.value.port \in members

\* A step of the program that is a call of recv on a receiver of port p
\* with a message waiting.
RecvStepOn(p) ==
    /\ last_call'.op = "recv"
    /\ last_call'.args = p
    /\ receive_right[p] = "task"
    /\ queue[p] # <<>>

MovedAndClassified(q) ==
    \E i \in 1..Len(opaques) :
       /\ opaques[i].name = q
       /\ opaques[i].right = "receive"
       /\ opaques[i].handles = 1

\* C14: a send that succeeds with a Receiver of port q among its endpoints
\* puts the receive right of q into the message, leaves no Receiver of q and
\* issues no release; to_receiver on the opaque channel received for q
\* returns the only Receiver of q, whose right the task holds and nobody has
\* released; from then on, while that Receiver lives, a send of a bare
\* payload on a Sender of q succeeds and queues the message on q, and a recv
\* that succeeds on q is a recv of that only Receiver and returns the oldest
\* message queued on q.
C14_ReceiveRightMoves ==
    [][\A q \in Ports :
          /\ (/\ SendStep
              /\ last_call'.os_result = MACH_MSG_SUCCESS
              /\ Count(last_call'.args.ports, [kind |-> "Receiver", port |-> q]) > 0) =>
                 /\ receive_right[q] = "task"
                 /\ receive_right'[q] = "message"
                 /\ receivers'[q] = 0
                 /\ released' = released
                 /\ \A i \in 1..Len(last_call'.calls) :
                       last_call'.calls[i].fn # "mach_port_mod_refs"
          /\ (last_call'.op = "to_receiver" /\ last_call'.value = q) =>
                 /\ receive_right'[q] = "task"
                 /\ receivers[q] = 0
                 /\ receivers'[q] = 1
                 /\ released'[q] = 0
                 /\ MovedAndClassified(q)'
          /\ (/\ MovedAndClassified(q)
              /\ receivers[q] = 1
              /\ SendStep
              /\ last_call'.args.port = q
              /\ last_call'.args.ports = <<>>) =>
                 /\ last_call'.os_result = MACH_MSG_SUCCESS
                 /\ Len(queue'[q]) = Len(queue[q]) + 1
                 /\ queue'[q][Len(queue'[q])].sent_data = last_call'.args.data
          /\ (/\ MovedAndClassified(q)
              /\ last_call'.op = "recv"
              /\ last_call'.args = q
              /\ last_call'.os_result = MACH_MSG_SUCCESS) =>
                 /\ receivers[q] = 1
                 /\ released[q] = 0
                 /\ last_call'.value.sent_data = Head(queue[q]).sent_data
                 /\ queue'[q] = Tail(queue[q])]_vars

\* The Receiver obtained by to_receiver received a message sent on a Sender
\* of its port, and nobody released the receive right.
C14_Witness_MovedReceiverReceives ==
    /\ RecvSucceeded
    /\ MovedAndClassified(last_call.args)
    /\ last_call.value.sent_ports = <<>>
    /\ receivers[last_call.args] = 1
    /\ released[last_call.args] = 0

\* C15: dropping a Receiver that still holds the name of a port whose right
\* the task has issues one release of that right, after which the port is
\* dead; a send on a Sender of a dead port is never made to wait, and when
\* it returns it returns MACH_SEND_INVALID_DEST and queues nothing.
C15_SendAfterReceiverDropFails ==
    /\ [](\A p \in Ports :
             (~panicked /\ senders[p] > 0 /\ sends < MaxSends
                /\ receive_right[p] = "dead") =>
                 ENABLED MachSender_send(p, <<>>, <<>>))
    /\ [][\A p \in Ports :
             /\ (/\ last_call'.op = "drop_receiver"
                 /\ last_call'.args = p
                 /\ receive_right[p] = "task") =>
                    /\ last_call'.calls = <<KCall("mach_port_mod_refs", p, "RECEIVE-1")>>
                    /\ released'[p] = released[p] + 1
                    /\ receive_right'[p] = "dead"
                    /\ ~panicked'
             /\ (/\ SendStep
                 /\ last_call'.args.port = p
                 /\ receive_right[p] = "dead") =>
                    /\ last_call'.os_result = MACH_SEND_INVALID_DEST
                    /\ queue' = queue]_vars

\* A send returned the failure for a port whose Receiver was dropped.
C15_Witness_SendToDroppedReceiver ==
    /\ SendReturned
    /\ last_call.os_result = MACH_SEND_INVALID_DEST
    /\ receive_right[last_call.args.port] = "dead"
    /\ released[last_call.args.port] = 1

\* The calls of the allocator among the calls of the last operation.
Allocations(calls) == {i \in 1..Len(calls) : calls[i].fn = "malloc"}

\* C16: when a recv, on a port or on a set, has returned, every heap buffer
\* it allocated has been released by a later call of free in the same recv.
C16_ScratchBufferReleased ==
    last_call.op \in {"recv", "set_recv"} =>
       \A i \in Allocations(last_call.calls) :
          \E j \in (i + 1)..Len(last_call.calls) : last_call.calls[j].fn = "free"

\* A step of the program that is a call of fn recv, on a port or on a set,
\* that got past its assertion.
FnRecvStep == last_call'.op \in {"recv", "set_recv"} /\ last_call'.calls # <<>>

\* The port whose queue answered the first mach_msg of that call.
FirstServed == IF last_call'.op = "recv" THEN last_call'.args ELSE last_call'.args.port

\* C17: a call of fn recv makes one or two receive calls of the kernel, the
\* first into the small buffer.  It makes the second only after the first
\* found a message that does not fit the small buffer with its trailer, and
\* then into a heap buffer of the size the kernel reported plus 8.  When the
\* call returns a status other than success it returns no message and takes
\* none off a queue, and a too-large status it returns is that of the second
\* receive call.
C17_AtMostTwoReceives ==
    [][FnRecvStep =>
          LET calls == last_call'.calls
              n == Cardinality(ReceiveCalls(calls))
          IN /\ n \in {1, 2}
             /\ calls[1].fn = "mach_msg_receive"
             /\ calls[1].arg = SMALL_MESSAGE_SIZE
             /\ n = 1 => /\ Len(calls) = 1
                         /\ last_call'.os_result # MACH_RCV_TOO_LARGE
             /\ n = 2 =>
                   /\ FirstServed \in Ports
                   /\ queue[FirstServed] # <<>>
                   /\ LET reported == Head(queue[FirstServed]).message.header.msgh_size
                      IN /\ reported + TrailerSize > SMALL_MESSAGE_SIZE
                         /\ calls = <<calls[1],
                                      KCall("malloc", MACH_PORT_NULL, reported + 8),
                                      KCall("mach_msg_receive", calls[1].name, reported + 8)>>
             /\ (/\ n = 1
                 /\ last_call'.os_result = MACH_MSG_SUCCESS) =>
                   Head(queue[FirstServed]).message.header.msgh_size + TrailerSize
                      <= SMALL_MESSAGE_SIZE
             /\ last_call'.os_result # MACH_MSG_SUCCESS =>
                   /\ last_call'.os_result \in {MACH_RCV_INVALID_NAME,
                                                MACH_RCV_INTERRUPTED,
                                                MACH_RCV_TOO_LARGE}
                   /\ last_call'.value = <<>>
                   /\ queue' = queue]_vars

\* A recv on a set returned the too-large status of its second receive call.
C17_Witness_SecondTooLarge ==
    /\ last_call.op = "set_recv"
    /\ last_call.os_result = MACH_RCV_TOO_LARGE
    /\ Cardinality(ReceiveCalls(last_call.calls)) = 2

\* The kernel calls that take the name of a port: reference count adjust,
\* extract right, move to a set, send and receive.
PortCalls == {"mach_port_mod_refs", "mach_port_extract_right",
              "mach_port_move_member", "mach_msg_send", "mach_msg_receive"}

\* C18: no kernel port call of the last operation was issued with the name
\* MACH_PORT_NULL.
C18_NoKernelCallOnNullName ==
    \A i \in 1..Len(last_call.calls) :
       last_call.calls[i].fn \in PortCalls =>
          last_call.calls[i].name # MACH_PORT_NULL

\* C19: the receive right of a member of the set has not been released
\* while the set lives, and has been released exactly once when the set has
\* been destroyed.
C19_MemberRightReleasedOnce ==
    \A p \in members :
       released[p] = IF port_set = "dropped" THEN 1 ELSE 0

\* C20: the drop of a Sender issues one mach_port_mod_refs of -1 on the send
\* right of its port and nothing else; the program goes on when the status
\* is KERN_SUCCESS or KERN_INVALID_RIGHT and panics on any other.  clone
\* issues one mach_port_mod_refs of +1; it panics on any status but
\* KERN_SUCCESS and otherwise returns one more Sender of the same port.
C20_SenderDropAndClone ==
    [][/\ last_call'.op = "drop_sender" =>
             /\ last_call'.calls =
                   <<KCall("mach_port_mod_refs", last_call'.args, "SEND-1")>>
             /\ senders'[last_call'.args] = senders[last_call'.args] - 1
             /\ panicked' = (last_call'.os_result \notin {KERN_SUCCESS, KERN_INVALID_RIGHT})
       /\ last_call'.op = "clone" =>
             /\ last_call'.calls =
                   <<KCall("mach_port_mod_refs", last_call'.args, "SEND+1")>>
             /\ panicked' = (last_call'.os_result # KERN_SUCCESS)
             /\ ~panicked' =>
                   /\ last_call'.value = last_call'.args
                   /\ senders'[last_call'.args] = senders[last_call'.args] + 1]_vars

\* A Sender of a port that is gone was dropped and the program went on.
C20_Witness_DropOfGoneRight ==
    /\ last_call.op = "drop_sender"
    /\ last_call.os_result = KERN_INVALID_RIGHT
    /\ ~panicked

\* Every name the loop can draw is registered already.
AllNamesTaken == \A name \in BootstrapNames : registry[name] # Free

\* MachOneShotServer::new is inside the loop of register_bootstrap_name.
Registering == server.state = "registering"

\* C21: a call of new that is in its registration loop while a free name
\* exists leaves the loop, with a server or with an error, unless the
\* program panics; while every name is taken no step takes new out of the
\* loop, another attempt is always possible, and a program that stays in
\* that situation for ever makes attempts for ever.
C21_NewReturnsUnlessAlwaysInUse ==
    /\ (Registering /\ ~AllNamesTaken /\ ~panicked) ~> (~Registering \/ panicked)
    /\ [][(Registering /\ AllNamesTaken) => Registering']_vars
    /\ []((Registering /\ AllNamesTaken /\ ~panicked) => ENABLED <<RegisterTurn>>_vars)
    /\ ([]<>~(Registering /\ AllNamesTaken /\ ~panicked) \/ []<><<RegisterTurn>>_vars)

\* new returned a server although one of the names it can draw was taken.
C21_Witness_PublishedBesideTakenName ==
    /\ last_call.op = "register"
    /\ last_call.value = "ok"
    /\ server.state = "live"
    /\ \E name \in BootstrapNames : registry[name] = Foreign

====
